---- MODULE Spec2Model ----
(***************************************************************************)
(* A model of sesascript's front end: the memory iterator MemIter          *)
(* (utils/mem_iter.py), the character tokenizer (main/tokenizer.py) and    *)
(* the backtracking parser with its types and emitter (main/ast.py).       *)
(*                                                                         *)
(* Positions are the source's 0-based indices, -1 meaning "iteration has   *)
(* not started"; the item at index i of a Python list is element i+1 of    *)
(* the TLA+ sequence that models it.                                       *)
(***************************************************************************)
EXTENDS Integers, Sequences, FiniteSets, TLC

VARIABLES
    \* ---- MemIter objects (SpecCursor) ----
    iterator,   \* the one underlying iterator: [items, pos]
    lists,      \* the list objects on the heap: list id -> contents
    elements,   \* cursor id -> id of the list its `elements` field refers to
    index,      \* cursor id -> its `index` field
    parent,     \* cursor id -> its `parent` field (None = 0)
    last,       \* the call made last: [op, cur, arg, ok]
    \* ---- Infer objects (SpecInfer) ----
    infered_type,   \* Infer instance -> its `infered_type` field ("None" when unset)
    compared,       \* the instances that have been an operand of a comparison
    inferLast,      \* the call made last: [op, u, arg, res]
    \* ---- tokenize(code), one recognizer call at a time (SpecParse) ----
    source,     \* the source text
    cpos,       \* index of the character cursor of tokenize's outer loop
    tk,         \* place in `tokenizers` of the recognizer to call next
    out,        \* the Tokens yielded so far
    tpc,        \* "off", "next_char", "try", "done" or "raised"
    tlast,      \* the recognizer called last and its answer: [name, st]
    \* ---- the grammar rules on a token cursor (SpecParse) ----
    stream,     \* the token source of the cursor: [toks, raises]
    pos,        \* index of the token cursor the rules are called with
    context,    \* the AstContext passed to the rules
    self_children,  \* self.children of the Block that Block.parse is building
    pc,         \* "off", "idle", "block", "done" or "raised"
    result,     \* the rule called last and its answer: [rule, at, st, node]
    \* ---- several tokenize(code) generators alive at once (SpecCalls) ----
    calls,      \* generator -> its frame: [code, tk, out, pc]
    chars       \* MemIter object -> [code, index]: the text it iterates, its index

cursorVars == <<iterator, lists, elements, index, parent, last>>
inferVars == <<infered_type, compared, inferLast>>
tokenizeVars == <<source, cpos, tk, out, tpc, tlast>>
parseVars == <<stream, pos, context, self_children, pc, result>>
callVars == <<calls, chars>>
vars == <<cursorVars, inferVars, tokenizeVars, parseVars, callVars>>

----------------------------------------------------------------------------
(* Bounds of the model *)

MaxSrc == 2         \* longest underlying source of the cursor model
MaxCursors == 3     \* MemIter objects alive at once in the cursor model
MaxIndex == 2       \* cap on a cursor's index (a failed __next__ still adds 1)
MaxBack == 1        \* largest n passed to go_back_by
MaxInfer == 2       \* Infer instances of the type model
MaxChars == 3       \* longest source text enumerated in full
MaxToks == 2        \* longest token sequence enumerated in full
MaxChildren == 3    \* cap on the children a Block collects
MaxCallChars == 2   \* longest text of the tokenize calls run side by side

None == 0

Max(a, b) == IF a >= b THEN a ELSE b

----------------------------------------------------------------------------
(* utils/mem_iter.py *)

\* field defaults of a newly constructed MemIter: index = -1
MemIter_index_default == -1

\* go_back_by: self.index -= n; self.index = max(0, self.index)
go_back_by(i, n) == Max(0, i - n)

\* __next__: self.index += 1
next_index_shared(idx, par, c) ==
    IF par[c] = None THEN [idx EXCEPT ![c] = @ + 1]
    ELSE [idx EXCEPT ![c] = @ + 1, ![par[c]] = @ + 1]
next_index(idx, par, c) == [idx EXCEPT ![c] = @ + 1]

\* __next__: whether the incremented index needs a pull from the iterator
needs_pull(i, elems) == i >= Len(elems)

\* next(self.iterator): whether the iterator still has an item
iterator_has_next(it) == it.pos < Len(it.items)

\* split: value.index = max(-1, self.index - 1 + offset)
split_index_at_parent(i, offset) == Max(-1, i + offset)
split_index(i, offset) == Max(-1, i - 1 + offset)

\* split: value.elements = self.elements (the same list object)
split_elements_copy(ls, ref) == [lists |-> Append(ls, ls[ref]), ref |-> Len(ls) + 1]
split_elements(ls, ref) == [lists |-> ls, ref |-> ref]

\* update_parent: if self.parent is None: return; self.parent.index = self.index
update_parent_chain(idx, par, c) ==
    IF par[c] = None THEN idx
    ELSE IF par[par[c]] = None THEN [idx EXCEPT ![par[c]] = idx[c]]
    ELSE [idx EXCEPT ![par[c]] = idx[c], ![par[par[c]]] = idx[c]]
update_parent(idx, par, c) ==
    IF par[c] = None THEN idx ELSE [idx EXCEPT ![par[c]] = idx[c]]

Cursors == 1..Len(index)

\* the underlying sources: 1, 2, .., n (an item is named by its place)
Sources == {[i \in 1..n |-> i] : n \in 0..MaxSrc}

\* MemIter(iterator): one cursor over a fresh iterator, with its own empty list
CursorIdle ==
    /\ iterator = [items |-> <<>>, pos |-> 0]
    /\ lists = <<<<>>>>
    /\ elements = <<1>>
    /\ index = <<MemIter_index_default>>
    /\ parent = <<None>>
    /\ last = [op |-> "new", cur |-> 1, arg |-> 0, ok |-> TRUE]

InitCursor ==
    /\ \E s \in Sources : iterator = [items |-> s, pos |-> 0]
    /\ lists = <<<<>>>>
    /\ elements = <<1>>
    /\ index = <<MemIter_index_default>>
    /\ parent = <<None>>
    /\ last = [op |-> "new", cur |-> 1, arg |-> 0, ok |-> TRUE]

\* c.__next__()
Next_(c) ==
    /\ index[c] < MaxIndex
    /\ LET idx == next_index(index, parent, c)
           buf == lists[elements[c]]
       IN /\ index' = idx
          /\ IF needs_pull(idx[c], buf)
             THEN IF iterator_has_next(iterator)
                  THEN /\ lists' = [lists EXCEPT ![elements[c]] =
                                       Append(buf, iterator.items[iterator.pos + 1])]
                       /\ iterator' = [iterator EXCEPT !.pos = @ + 1]
                       /\ last' = [op |-> "next", cur |-> c, arg |-> 0, ok |-> TRUE]
                  ELSE \* StopIteration leaves the incremented index behind
                       /\ UNCHANGED <<lists, iterator>>
                       /\ last' = [op |-> "next", cur |-> c, arg |-> 0, ok |-> FALSE]
             ELSE /\ UNCHANGED <<lists, iterator>>
                  /\ last' = [op |-> "next", cur |-> c, arg |-> 0, ok |-> TRUE]
    /\ UNCHANGED <<elements, parent>>
    /\ UNCHANGED <<inferVars, tokenizeVars, parseVars, callVars>>

\* c.go_back_by(n)
GoBackBy(c, n) ==
    /\ index' = [index EXCEPT ![c] = go_back_by(index[c], n)]
    /\ last' = [op |-> "go_back_by", cur |-> c, arg |-> n, ok |-> TRUE]
    /\ UNCHANGED <<iterator, lists, elements, parent>>
    /\ UNCHANGED <<inferVars, tokenizeVars, parseVars, callVars>>

\* c.split(offset)
Split(c, offset) ==
    /\ Len(index) < MaxCursors
    /\ LET e == split_elements(lists, elements[c])
       IN /\ lists' = e.lists
          /\ elements' = Append(elements, e.ref)
    /\ index' = Append(index, split_index(index[c], offset))
    /\ parent' = Append(parent, c)
    /\ last' = [op |-> "split", cur |-> c, arg |-> offset, ok |-> TRUE]
    /\ UNCHANGED iterator
    /\ UNCHANGED <<inferVars, tokenizeVars, parseVars, callVars>>

\* c.update_parent()
UpdateParent(c) ==
    /\ index' = update_parent(index, parent, c)
    /\ last' = [op |-> "update_parent", cur |-> c, arg |-> 0, ok |-> TRUE]
    /\ UNCHANGED <<iterator, lists, elements, parent>>
    /\ UNCHANGED <<inferVars, tokenizeVars, parseVars, callVars>>

NextCursor ==
    \/ \E c \in Cursors : Next_(c)
    \/ \E c \in Cursors : \E n \in 0..MaxBack : GoBackBy(c, n)
    \/ \E c \in Cursors : \E offset \in {0, 1} : Split(c, offset)
    \/ \E c \in Cursors : UpdateParent(c)

----------------------------------------------------------------------------
(* main/ast.py: DataType and its subclasses *)

\* the DataType instances of the model: Str(), Void(), the Function type of
\* printf in std_globals, and a still-unbound Infer()
Str == "str"
Void == "void"
Function == "fn"
Infer == "infer"
ConcreteTypes == {Str, Void, Function}

\* Infer instances are named "infer1", "infer2", ..
InferName(k) == IF k = 1 THEN "infer1" ELSE IF k = 2 THEN "infer2" ELSE "infer3"
InferIds == 1..MaxInfer
InferRefs == {InferName(k) : k \in InferIds}

\* isinstance(other, DataType)
IsDataType(other) == other \in ConcreteTypes \cup InferRefs \cup {Infer}

\* DataType.final_type: return self
DataType_final_type(self) == self

\* Infer.__eq__: if not isinstance(other, DataType): return False;
\*               self.infered_type = other; return True
Infer_eq_forgets(cur, other) ==
    IF ~IsDataType(other) THEN [res |-> FALSE, infered_type |-> cur]
    ELSE [res |-> TRUE, infered_type |-> cur]
Infer_eq(cur, other) ==
    IF ~IsDataType(other) THEN [res |-> FALSE, infered_type |-> cur]
    ELSE [res |-> TRUE, infered_type |-> other]

\* Infer.final_type: raise TypeError if self.infered_type is None, else return it
Infer_final_type(cur) == IF cur = "None" THEN "TypeError" ELSE cur

InferIdle ==
    /\ infered_type = [u \in InferIds |-> "None"]
    /\ compared = {}
    /\ inferLast = [op |-> "new", u |-> 0, arg |-> "None", res |-> "None"]

\* Infer(): infered_type = None
InitInfer == InferIdle

\* u == other, for an Infer u
InferEq(u, other) ==
    LET r == Infer_eq(infered_type[u], other)
    IN /\ infered_type' = [infered_type EXCEPT ![u] = r.infered_type]
       /\ compared' = compared \cup {u} \cup {k \in InferIds : InferName(k) = other}
       /\ inferLast' = [op |-> "eq", u |-> u, arg |-> other,
                        res |-> IF r.res THEN "True" ELSE "False"]
       /\ UNCHANGED <<cursorVars, tokenizeVars, parseVars, callVars>>

\* u.final_type()
InferFinalType(u) ==
    /\ inferLast' = [op |-> "final_type", u |-> u, arg |-> "None",
                     res |-> Infer_final_type(infered_type[u])]
    /\ UNCHANGED <<infered_type, compared>>
    /\ UNCHANGED <<cursorVars, tokenizeVars, parseVars, callVars>>

NextInfer ==
    \/ \E u \in InferIds :
         \E other \in ConcreteTypes \cup InferRefs \cup {"not a DataType"} :
            InferEq(u, other)
    \/ \E u \in InferIds : InferFinalType(u)

----------------------------------------------------------------------------
(* main/tokenizer.py *)

\* A source text is a sequence of one-character strings; a Token is
\* [type, value]. A recognizer is given the index of the character cursor it
\* is called with and answers [st, tok, idx]: st = "token" (a Token), "none"
\* (None) or "raise" (an exception leaves the recognizer); idx is the index
\* of the caller's cursor afterwards.

NoToken == [type |-> "None", value |-> ""]
Token(type, value) == [type |-> type, value |-> value]

\* TokenType
OPERATOR == "operator"
STRING_LITERAL == "string_literal"
WHITESPACE == "whitespace"
VAR_NAME == "var_name"
UNKNOWN == "unknown"
NEW_LINE == "new_line"

\* operators = {"="}; operators_max_size = max(len(x) for x in operators)
operators == {"="}
operators_max_size == 1

\* string_quotes: the double quote, the single quote and the back quote
\* (a TLA+ string cannot hold a back quote: the character is written by name)
BackQuote == "<backquote>"
string_quotes == {"\"", "'", BackQuote}

\* the characters of the model's texts, by the classes the recognizers test
Letters == {"a", "b", "f", "g", "h", "i", "m", "n", "p", "r", "s", "t", "x"}
Digits == {"0", "1"}
\* re.match(r"\s", c)
IsSpace(c) == c \in {" ", "\t", "\n", "\r", "\f"}
\* re.match("[a-zA-Z_$]", c)
IsNameStart(c) == c \in Letters \cup {"_", "$"}
\* re.match(r"[a-zA-Z0-9$\_]", c)
IsNameChar(c) == c \in Letters \cup Digits \cup {"_", "$"}

\* LET x == e IN body with e evaluated once, written Only({body : x \in {e}})
Only(S) == CHOOSE v \in S : TRUE

\* code.elements[i] of a character cursor
Char(code, i) == code[i + 1]

\* MemIter.__next__ on a cursor over iter(code) at index i:
\* the index becomes i + 1; StopIteration when the text has no such character
Char_next(code, i) ==
    [index |-> i + 1, st |-> IF i + 1 < Len(code) THEN "item" ELSE "stop"]

\* child.update_parent() for a child at index c of a parent at index p
commit(c, p) == update_parent(<<p, c>>, <<None, 1>>, 2)[1]

\* tokenize_string_literal, second loop: for char in code.split(1)
RECURSIVE string_literal_loop(_, _, _)
string_literal_loop(code, k, string_value) ==
    LET n == Char_next(code, k)
    IN IF n.st = "stop" THEN [st |-> "none", index |-> n.index, value |-> string_value]
       ELSE LET c == Char(code, n.index)
            IN IF c = "\\"
               THEN LET e == Char_next(code, n.index)   \* next(char)
                    IN IF e.st = "stop"
                       THEN [st |-> "raise", index |-> e.index, value |-> string_value]
                       ELSE string_literal_loop(code, e.index,
                               string_value \o "\\" \o Char(code, e.index))
               ELSE IF c \in string_quotes
               THEN [st |-> "token", index |-> n.index, value |-> string_value]
               ELSE string_literal_loop(code, n.index, string_value \o c)

tokenize_string_literal(code, p) ==
    LET first == Char_next(code, split_index(p, 0))
    IN IF first.st = "item" /\ Char(code, first.index) \notin string_quotes
       THEN [st |-> "none", tok |-> NoToken, idx |-> p]
       ELSE LET p1 == IF first.st = "item" THEN commit(first.index, p) ELSE p
            IN Only({
               IF r.st = "token"
               THEN [st |-> "token", tok |-> Token(STRING_LITERAL, r.value),
                     idx |-> commit(r.index, p1)]
               ELSE [st |-> r.st, tok |-> NoToken, idx |-> p1]
               : r \in {string_literal_loop(code, split_index(p1, 1), "")} })

tokenize_whitespace(code, p) ==
    LET n == Char_next(code, split_index(p, 0))
    IN IF n.st = "item" /\ IsSpace(Char(code, n.index))
       THEN [st |-> "token", tok |-> Token(WHITESPACE, Char(code, n.index)),
             idx |-> commit(n.index, p)]
       ELSE [st |-> "none", tok |-> NoToken, idx |-> p]

\* for _, char in zip(range(operators_max_size), code.split())
RECURSIVE operator_loop(_, _, _, _)
operator_loop(code, k, count, operator) ==
    IF count >= operators_max_size THEN [st |-> "none", index |-> k, value |-> operator]
    ELSE LET n == Char_next(code, k)
         IN IF n.st = "stop" THEN [st |-> "none", index |-> n.index, value |-> operator]
            ELSE LET op == operator \o Char(code, n.index)
                 IN IF op \in operators
                    THEN [st |-> "token", index |-> n.index, value |-> op]
                    ELSE operator_loop(code, n.index, count + 1, op)

tokenize_operator(code, p) ==
    Only({
       IF r.st = "token"
       THEN [st |-> "token", tok |-> Token(OPERATOR, r.value), idx |-> commit(r.index, p)]
       ELSE [st |-> "none", tok |-> NoToken, idx |-> p]
       : r \in {operator_loop(code, split_index(p, 0), 0, "")} })

\* tokenize_var_name, second loop: for char in code.split()
RECURSIVE var_name_loop(_, _, _)
var_name_loop(code, k, var_name) ==
    LET n == Char_next(code, k)
    IN IF n.st = "stop" THEN [st |-> "none", index |-> n.index, value |-> var_name]
       ELSE IF IsNameChar(Char(code, n.index))
       THEN var_name_loop(code, n.index, var_name \o Char(code, n.index))
       ELSE [st |-> "token", index |-> go_back_by(n.index, 1), value |-> var_name]

tokenize_var_name(code, p) ==
    LET first == Char_next(code, split_index(p, 0))
    IN IF first.st = "item" /\ ~IsNameStart(Char(code, first.index))
       THEN [st |-> "none", tok |-> NoToken, idx |-> p]
       ELSE LET p1 == IF first.st = "item" THEN commit(first.index, p) ELSE p
            IN Only({
               IF r.st = "token"
               THEN [st |-> "token", tok |-> Token(VAR_NAME, r.value),
                     idx |-> commit(r.index, p1)]
               ELSE [st |-> "none", tok |-> NoToken, idx |-> p1]
               : r \in {var_name_loop(code, split_index(p1, 0), "")} })

tokenize_new_line(code, p) ==
    LET n == Char_next(code, split_index(p, 0))
    IN IF n.st = "item" /\ Char(code, n.index) = "\n"
       THEN [st |-> "token", tok |-> Token(NEW_LINE, Char(code, n.index)), idx |-> p]
       ELSE [st |-> "none", tok |-> NoToken, idx |-> p]

tokenize_unknown(code, p) ==
    LET n == Char_next(code, split_index(p, 0))
    IN IF n.st = "item"
       THEN [st |-> "token", tok |-> Token(UNKNOWN, Char(code, n.index)), idx |-> p]
       ELSE [st |-> "none", tok |-> NoToken, idx |-> p]

\* the list `tokenizers`, in the order of the @register_tokenizer decorators
tokenizers ==
    <<"string_literal", "whitespace", "operator", "var_name", "new_line", "unknown">>

register_tokenizer(name, code, p) ==
    CASE name = "string_literal" -> tokenize_string_literal(code, p)
      [] name = "whitespace" -> tokenize_whitespace(code, p)
      [] name = "operator" -> tokenize_operator(code, p)
      [] name = "var_name" -> tokenize_var_name(code, p)
      [] name = "new_line" -> tokenize_new_line(code, p)
      [] OTHER -> tokenize_unknown(code, p)

\* tokenize, inner loop: for tokenizer in tokenizers, from the t-th on
RECURSIVE tokenize_at(_, _, _)
tokenize_at(code, p, t) ==
    IF t > Len(tokenizers) THEN [st |-> "none", tok |-> NoToken, idx |-> p]
    ELSE Only({ IF r.st = "none" THEN tokenize_at(code, r.idx, t + 1) ELSE r
                : r \in {register_tokenizer(tokenizers[t], code, p)} })

\* tokenize, outer loop: for char in MemIter(iter(code)). The answer is the
\* tokens the generator yields and whether it then ends by raising (a
\* StopIteration escaping into the generator arrives as RuntimeError).
RECURSIVE tokenize_from(_, _, _)
tokenize_from(code, p, acc) ==
    LET n == Char_next(code, p)
    IN IF n.st = "stop" THEN [toks |-> acc, raises |-> FALSE]
       ELSE Only({
               IF r.st = "raise" THEN [toks |-> acc, raises |-> TRUE]
               ELSE IF r.st = "none" THEN tokenize_from(code, r.idx, acc)
               ELSE tokenize_from(code, r.idx, Append(acc, r.tok))
               : r \in {tokenize_at(code, n.index, 1)} })

tokenize(code) == tokenize_from(code, MemIter_index_default, <<>>)

----------------------------------------------------------------------------
(* main/ast.py: the parser *)

\* The token cursor reads `tokens` = [toks, raises]: the Tokens the generator
\* tokenize(source) yields and whether it then raises instead of ending.
\* A grammar rule is given the index p of the cursor it is called with and
\* the AstContext, and answers [st, idx, ctx, node]: st = "ok" (a node),
\* "none" (None) or the name of the exception that leaves the rule; idx is
\* the index of the caller's cursor afterwards and ctx the context afterwards.

Result(st, idx, ctx, node) == [st |-> st, idx |-> idx, ctx |-> ctx, node |-> node]
NoNode == [kind |-> "None"]
IsRaise(st) == st \notin {"ok", "none"}

\* tokens.elements[i]
Tok(tokens, i) == tokens.toks[i + 1]

\* MemIter.__next__ on a cursor over the token generator at index i
Tok_next(tokens, i) ==
    [index |-> i + 1,
     st |-> IF i + 1 < Len(tokens.toks) THEN "item"
            ELSE IF tokens.raises THEN "raise" ELSE "stop"]

\* VariableData objects are [symbol, data_type]; a dict of them is a function
\* from symbols to data types
NoVars == [s \in {} |-> Str]
\* std_globals
std_globals == [s \in {"printf"} |-> Function]
\* Function.args of the one Function type, in order
Function_args(t) == <<[symbol |-> "message", data_type |-> Str]>>

\* AstContext(nonlocal_vars, local_vars, whitespace=0, module_name="main")
AstContext(nonlocal_vars, local_vars) ==
    [nonlocal_vars |-> nonlocal_vars, local_vars |-> local_vars,
     whitespace |-> 0, module_name |-> "main"]

\* a != b on DataTypes: an Infer operand on either side makes the comparison
\* come out equal (Infer.__eq__, directly or reflected); otherwise the
\* dataclass comparison of two concrete types
DataType_ne(a, b) ==
    IF a = Infer THEN ~Infer_eq("None", b).res
    ELSE IF b = Infer THEN ~Infer_eq("None", a).res
    ELSE a # b

\* context.local_vars.get(symbol, context.nonlocal_vars.get(symbol))
lookup(ctx, symbol) ==
    IF symbol \in DOMAIN ctx.local_vars THEN ctx.local_vars[symbol]
    ELSE IF symbol \in DOMAIN ctx.nonlocal_vars THEN ctx.nonlocal_vars[symbol]
    ELSE "None"

\* context.local_vars[symbol] = variable
bind(ctx, symbol, data_type) ==
    [ctx EXCEPT !.local_vars =
        [s \in DOMAIN ctx.local_vars \cup {symbol} |->
            IF s = symbol THEN data_type ELSE ctx.local_vars[s]]]

\* StringLiteral.parse
StringLiteral_parse_eager(tokens, p, ctx) ==
    LET n == Tok_next(tokens, split_index(p, 0))
    IN IF n.st = "raise" THEN Result("RuntimeError", p, ctx, NoNode)
       ELSE IF n.st = "stop" THEN Result("none", p, ctx, NoNode)
       ELSE IF Tok(tokens, n.index).type = STRING_LITERAL
       THEN Result("ok", commit(n.index, p), ctx,
                   [kind |-> "StringLiteral", data_type |-> Str,
                    token |-> Tok(tokens, n.index)])
       ELSE Result("none", commit(n.index, p), ctx, NoNode)
StringLiteral_parse(tokens, p, ctx) ==
    LET n == Tok_next(tokens, split_index(p, 0))
    IN IF n.st = "raise" THEN Result("RuntimeError", p, ctx, NoNode)
       ELSE IF n.st = "stop" THEN Result("none", p, ctx, NoNode)
       ELSE IF Tok(tokens, n.index).type = STRING_LITERAL
       THEN Result("ok", commit(n.index, p), ctx,
                   [kind |-> "StringLiteral", data_type |-> Str,
                    token |-> Tok(tokens, n.index)])
       ELSE Result("none", p, ctx, NoNode)

\* Assignee.parse
Assignee_parse_registers(tokens, p, ctx) ==
    LET n == Tok_next(tokens, split_index(p, 0))
    IN IF n.st = "raise" THEN Result("RuntimeError", p, ctx, NoNode)
       ELSE IF n.st = "stop" THEN Result("none", p, ctx, NoNode)
       ELSE IF Tok(tokens, n.index).type = VAR_NAME
       THEN LET symbol == Tok(tokens, n.index).value
            IN Result("ok", commit(n.index, p), bind(ctx, symbol, Infer),
                      [kind |-> "Assignee", symbol |-> symbol, data_type |-> Infer,
                       is_declaration |-> TRUE, token |-> Tok(tokens, n.index)])
       ELSE Result("none", p, ctx, NoNode)
Assignee_parse(tokens, p, ctx) ==
    LET n == Tok_next(tokens, split_index(p, 0))
    IN IF n.st = "raise" THEN Result("RuntimeError", p, ctx, NoNode)
       ELSE IF n.st = "stop" THEN Result("none", p, ctx, NoNode)
       ELSE IF Tok(tokens, n.index).type = VAR_NAME
       THEN LET symbol == Tok(tokens, n.index).value
                is_declaration == symbol \notin DOMAIN ctx.local_vars
                data_type == IF is_declaration THEN Infer ELSE ctx.local_vars[symbol]
                p1 == commit(n.index, p)
            IN Result("ok", p1, ctx,
                      [kind |-> "Assignee", symbol |-> symbol, data_type |-> data_type,
                       is_declaration |-> is_declaration, token |-> Tok(tokens, p1)])
       ELSE Result("none", p, ctx, NoNode)

\* Assignment.parse, first inner loop: for token in tokens.split(1), looking
\* for the operator "="
RECURSIVE Assignment_operator_loop(_, _)
Assignment_operator_loop(tokens, k) ==
    LET n == Tok_next(tokens, k)
    IN IF n.st = "raise" THEN [st |-> "raise", index |-> n.index]
       ELSE IF n.st = "stop" THEN [st |-> "none", index |-> n.index]
       ELSE LET t == Tok(tokens, n.index)
            IN IF t.type = OPERATOR /\ t.value = "="
               THEN [st |-> "found", index |-> n.index]
               ELSE IF t.type # WHITESPACE THEN [st |-> "none", index |-> n.index]
               ELSE Assignment_operator_loop(tokens, n.index)

\* Assignment.parse, second inner loop: for token in tokens.split(1), skipping
\* whitespace, then token.go_back_by(1) and token.update_parent()
RECURSIVE Assignment_skip_loop(_, _)
Assignment_skip_loop(tokens, k) ==
    LET n == Tok_next(tokens, k)
    IN IF n.st = "raise" THEN [st |-> "raise", index |-> n.index]
       ELSE IF n.st = "stop" THEN [st |-> "end", index |-> n.index]
       ELSE IF Tok(tokens, n.index).type = WHITESPACE
       THEN Assignment_skip_loop(tokens, n.index)
       ELSE [st |-> "commit", index |-> go_back_by(n.index, 1)]

RECURSIVE Statement_parse(_, _, _)
RECURSIVE ValueStatement_parse(_, _, _)
RECURSIVE CallStatement_parse(_, _, _)
RECURSIVE CallStatement_outer(_, _, _, _)
RECURSIVE CallStatement_args(_, _, _, _, _, _)

\* Assignment.parse
Assignment_parse(tokens, p, ctx) ==
    LET n == Tok_next(tokens, split_index(p, 0))     \* for tokens in tokens.split()
    IN IF n.st = "raise" THEN Result("RuntimeError", p, ctx, NoNode)
       ELSE IF n.st = "stop" THEN Result("none", p, ctx, NoNode)
       ELSE Only({
         IF assignee.st # "ok" THEN Result(assignee.st, p, assignee.ctx, NoNode)
         ELSE Only({
           IF op.st = "raise" THEN Result("RuntimeError", p, assignee.ctx, NoNode)
           ELSE IF op.st = "none" THEN Result("none", p, assignee.ctx, NoNode)
           ELSE
           LET t1 == commit(op.index, assignee.idx)
           IN Only({
             IF skip.st = "raise" THEN Result("RuntimeError", p, assignee.ctx, NoNode)
             ELSE
             LET t2 == IF skip.st = "commit" THEN commit(skip.index, t1) ELSE t1
             IN Only({
               IF assigner.st # "ok" THEN Result(assigner.st, p, assigner.ctx, NoNode)
               ELSE IF DataType_ne(assignee.node.data_type, assigner.node.data_type)
               THEN Result("none", p, assigner.ctx, NoNode)
               ELSE
               LET symbol == assignee.node.symbol
                   bound == IF assignee.node.data_type = Infer
                            THEN Infer_final_type(
                                    Infer_eq("None", assigner.node.data_type).infered_type)
                            ELSE DataType_final_type(assignee.node.data_type)
               IN IF bound = "TypeError"
                  THEN Result("TypeError", p, assigner.ctx, NoNode)
                  ELSE Result("ok", commit(assigner.idx, p),
                              bind(assigner.ctx, symbol, bound),
                              [kind |-> "Assignment", data_type |-> Infer,
                               children |-> <<[assignee.node EXCEPT !.data_type = bound],
                                              assigner.node>>])
               : assigner \in {ValueStatement_parse(tokens, t2, assignee.ctx)} })
             : skip \in {Assignment_skip_loop(tokens, split_index(t1, 1))} })
           : op \in {Assignment_operator_loop(tokens, split_index(assignee.idx, 1))} })
         : assignee \in {Assignee_parse(tokens, n.index, ctx)} })

\* ValueStatement.sub_classes, in the order the subclasses are defined
ValueStatement_sub_classes == <<"StringLiteral", "CallStatement">>

\* ValueStatement.parse
ValueStatement_parse(tokens, p, ctx) ==
    Only({ IF first.st # "none" THEN first
           ELSE CallStatement_parse(tokens, first.idx, first.ctx)
           : first \in {StringLiteral_parse(tokens, p, ctx)} })

\* Statement.standalone_subclasses, in the order the subclasses are defined
Statement_standalone_subclasses == <<"Assignment", "ValueStatement">>

\* Statement.parse
Statement_parse(tokens, p, ctx) ==
    Only({ IF first.st # "none" THEN first
           ELSE ValueStatement_parse(tokens, first.idx, first.ctx)
           : first \in {Assignment_parse(tokens, p, ctx)} })

\* CallStatement.parse, loop for the "(": for tok in token.split(1)
RECURSIVE CallStatement_paren_loop(_, _)
CallStatement_paren_loop(tokens, k) ==
    LET n == Tok_next(tokens, k)
    IN IF n.st = "raise" THEN [st |-> "raise", index |-> n.index]
       ELSE IF n.st = "stop" THEN [st |-> "end", index |-> n.index]
       ELSE IF Tok(tokens, n.index).type = WHITESPACE
       THEN CallStatement_paren_loop(tokens, n.index)
       ELSE IF Tok(tokens, n.index).value = "("
       THEN [st |-> "found", index |-> n.index]
       ELSE [st |-> "none", index |-> n.index]

\* CallStatement.parse, loop after an argument: for t in tok.split(1)
RECURSIVE CallStatement_separator_loop(_, _)
CallStatement_separator_loop(tokens, k) ==
    LET n == Tok_next(tokens, k)
    IN IF n.st = "raise" THEN [st |-> "raise", index |-> n.index]
       ELSE IF n.st = "stop" THEN [st |-> "end", index |-> n.index]
       ELSE IF Tok(tokens, n.index).type = WHITESPACE
       THEN CallStatement_separator_loop(tokens, n.index)
       ELSE IF Tok(tokens, n.index).value = ","
       THEN [st |-> "comma", index |-> n.index]
       ELSE IF Tok(tokens, n.index).value = ")"
       THEN [st |-> "close", index |-> n.index]
       ELSE CallStatement_separator_loop(tokens, n.index)

\* next(islice(arguments.items(), i, None))[1]: StopIteration past the last
has_parameter(arguments, i) == i < Len(arguments)

\* CallStatement.parse, loop over the arguments: for tok in token.split(1),
\* with tok at index h, i arguments accepted so far. st = "ok": the call is
\* complete, idx the index committed through tok to token; "end": the loop
\* ran out of tokens.
CallStatement_args(tokens, ctx, arguments, h, i, args) ==
    LET n == Tok_next(tokens, h)
    IN IF n.st = "raise" THEN [st |-> "RuntimeError", idx |-> h, ctx |-> ctx, args |-> args]
       ELSE IF n.st = "stop" THEN [st |-> "end", idx |-> h, ctx |-> ctx, args |-> args]
       ELSE IF Tok(tokens, n.index).type = WHITESPACE
       THEN CallStatement_args(tokens, ctx, arguments, n.index, i, args)
       ELSE
       Only({
         IF arg.st # "ok" THEN [st |-> arg.st, idx |-> h, ctx |-> arg.ctx, args |-> args]
         ELSE IF ~has_parameter(arguments, i)
         THEN [st |-> "StopIteration", idx |-> h, ctx |-> arg.ctx, args |-> args]
         ELSE IF DataType_ne(arguments[i + 1].data_type, arg.node.data_type)
         THEN [st |-> "none", idx |-> h, ctx |-> arg.ctx, args |-> args]
         ELSE
         LET args1 == [args EXCEPT ![i + 1] = arg.node]
         IN Only({
           IF sep.st = "raise"
           THEN [st |-> "RuntimeError", idx |-> h, ctx |-> arg.ctx, args |-> args1]
           ELSE IF sep.st = "close"
           THEN [st |-> "ok", idx |-> commit(sep.index, arg.idx),
                 ctx |-> arg.ctx, args |-> args1]
           ELSE IF sep.st = "comma"
           THEN CallStatement_args(tokens, arg.ctx, arguments,
                                   commit(sep.index, arg.idx), i + 1, args1)
           ELSE CallStatement_args(tokens, arg.ctx, arguments, arg.idx, i, args1)
           : sep \in {CallStatement_separator_loop(tokens, split_index(arg.idx, 1))} })
         : arg \in {Statement_parse(tokens, n.index, ctx)} })

\* CallStatement.parse, outer loop: for token in tokens.split(), with token
\* at index f before its next step; p is the caller's cursor
CallStatement_outer(tokens, p, ctx, f) ==
    LET n == Tok_next(tokens, f)
    IN IF n.st = "raise" THEN Result("RuntimeError", p, ctx, NoNode)
       ELSE IF n.st = "stop" THEN Result("none", p, ctx, NoNode)
       ELSE IF Tok(tokens, n.index).type # VAR_NAME THEN Result("none", p, ctx, NoNode)
       ELSE
       LET symbol == Tok(tokens, n.index).value
           data_type == lookup(ctx, symbol)
       IN IF data_type = "None" THEN Result("none", p, ctx, NoNode)
          ELSE IF data_type # Function THEN Result("none", p, ctx, NoNode)
          ELSE
          LET arguments == Function_args(data_type)
          IN Only({
            IF paren.st = "raise" THEN Result("RuntimeError", p, ctx, NoNode)
            ELSE IF paren.st = "none" THEN Result("none", p, ctx, NoNode)
            ELSE
            LET f1 == IF paren.st = "found" THEN commit(paren.index, n.index)
                      ELSE n.index
            IN Only({
              IF r.st = "ok"
              THEN Result("ok", commit(commit(r.idx, f1), p), r.ctx,
                          [kind |-> "CallStatement", data_type |-> Infer,
                           function |-> symbol, args |-> r.args])
              ELSE IF r.st = "end" THEN CallStatement_outer(tokens, p, r.ctx, f1)
              ELSE Result(r.st, p, r.ctx, NoNode)
              : r \in {CallStatement_args(tokens, ctx, arguments, split_index(f1, 1), 0,
                                          [k \in 1..Len(arguments) |-> NoNode])} })
            : paren \in {CallStatement_paren_loop(tokens, split_index(n.index, 1))} })

\* CallStatement.parse
CallStatement_parse(tokens, p, ctx) ==
    CallStatement_outer(tokens, p, ctx, split_index(p, 0))

\* Block.parse, first inner loop: for tok in token.split(), counting the
\* leading whitespace tokens of the line
RECURSIVE Block_indent_loop(_, _, _)
Block_indent_loop(tokens, k, curr_whitespace) ==
    LET n == Tok_next(tokens, k)
    IN IF n.st = "raise"
       THEN [st |-> "raise", index |-> n.index, curr_whitespace |-> curr_whitespace]
       ELSE IF n.st = "stop"
       THEN [st |-> "end", index |-> n.index, curr_whitespace |-> curr_whitespace]
       ELSE IF Tok(tokens, n.index).type = NEW_LINE
       THEN [st |-> "no_statement", index |-> n.index, curr_whitespace |-> curr_whitespace]
       ELSE IF Tok(tokens, n.index).type # WHITESPACE
       THEN [st |-> "statement", index |-> go_back_by(n.index, 1),
             curr_whitespace |-> curr_whitespace]
       ELSE Block_indent_loop(tokens, n.index, curr_whitespace + 1)

\* Block.parse, second inner loop: for tok in token.split(), after a line
\* that is no statement
RECURSIVE Block_rest_loop(_, _)
Block_rest_loop(tokens, k) ==
    LET n == Tok_next(tokens, k)
    IN IF n.st = "raise" THEN [st |-> "raise", index |-> n.index]
       ELSE IF n.st = "stop" THEN [st |-> "end", index |-> n.index]
       ELSE IF Tok(tokens, n.index).type = NEW_LINE
       THEN [st |-> "new_line", index |-> n.index]
       ELSE IF Tok(tokens, n.index).type # WHITESPACE
       THEN [st |-> "return", index |-> n.index]
       ELSE Block_rest_loop(tokens, n.index)

\* Block.parse: one turn of the loop `for token in tokens`, the cursor at
\* index p before its step. st = "continue" (the loop goes on), "self" (return
\* self), "none" (return None) or the exception that leaves Block.parse.
Block_parse_step(tokens, p, ctx, children) ==
    LET Out(st, idx, c, ch) == [st |-> st, idx |-> idx, ctx |-> c, children |-> ch]
        n == Tok_next(tokens, p)
    IN IF n.st = "raise" THEN Out("RuntimeError", n.index, ctx, children)
       ELSE IF n.st = "stop" THEN Out("self", n.index, ctx, children)
       ELSE IF Tok(tokens, n.index).value = ")" THEN Out("none", n.index, ctx, children)
       ELSE
       Only({
         IF ind.st = "raise" THEN Out("RuntimeError", n.index, ctx, children)
         ELSE IF ind.st = "no_statement"
         THEN Out("continue", commit(ind.index, n.index), ctx, children)
         ELSE
         LET p1 == IF ind.st = "statement" THEN commit(ind.index, n.index) ELSE n.index
         IN IF ctx.whitespace # ind.curr_whitespace THEN Out("none", p1, ctx, children)
            ELSE Only({
              IF IsRaise(statement.st)
              THEN Out(statement.st, statement.idx, statement.ctx, children)
              ELSE IF statement.st = "ok"
              THEN Out("continue", statement.idx, statement.ctx,
                       Append(children, statement.node))
              ELSE Only({
                IF rest.st = "raise"
                THEN Out("RuntimeError", statement.idx, statement.ctx, children)
                ELSE IF rest.st = "return"
                THEN Out("none", statement.idx, statement.ctx, children)
                ELSE IF rest.st = "new_line"
                THEN Out("continue", commit(rest.index, statement.idx),
                         statement.ctx, children)
                ELSE Out("continue", statement.idx, statement.ctx, children)
                : rest \in {Block_rest_loop(tokens, split_index(statement.idx, 0))} })
              : statement \in {Statement_parse(tokens, p1, ctx)} })
         : ind \in {Block_indent_loop(tokens, split_index(n.index, 0), 0)} })

\* Root.parse: if context.module_name == "main": context.nonlocal_vars = std_globals
Root_parse_context(ctx) ==
    IF ctx.module_name = "main" THEN [ctx EXCEPT !.nonlocal_vars = std_globals] ELSE ctx

----------------------------------------------------------------------------
(* main/ast.py: the emitter *)

\* c_name of a DataType
c_name(data_type) ==
    CASE data_type = Str -> "char[]"
      [] data_type = Void -> "void"
      [] data_type = Function -> "Void() (*printf_t)(char[])"
      [] OTHER -> ""

\* " " * indent
RECURSIVE spaces(_)
spaces(indent) == IF indent <= 0 THEN "" ELSE " " \o spaces(indent - 1)

RECURSIVE Node_compile(_, _)
\* ', '.join([arg.compile(indent) for arg in self.args.values()])
RECURSIVE join_args(_, _, _)
join_args(args, k, indent) ==
    IF k > Len(args) THEN ""
    ELSE (IF k > 1 THEN ", " ELSE "") \o Node_compile(args[k], indent)
            \o join_args(args, k + 1, indent)

\* compile of StringLiteral, CallStatement, Assignee and Assignment
Node_compile(node, indent) ==
    CASE node.kind = "StringLiteral" -> "\"" \o node.token.value \o "\""
      [] node.kind = "CallStatement" ->
            node.function \o "(" \o join_args(node.args, 1, indent) \o ")"
      [] node.kind = "Assignee" ->
            (IF node.is_declaration THEN c_name(node.data_type) \o " " ELSE "")
                \o node.symbol
      [] node.kind = "Assignment" ->
            Node_compile(node.children[1], 0) \o " = " \o Node_compile(node.children[2], 0)
      [] OTHER -> ""

\* Block.compile: indent += 4, then each child on a line of its own
RECURSIVE Block_compile_from(_, _, _)
Block_compile_from(children, k, indent) ==
    IF k > Len(children) THEN ""
    ELSE spaces(indent) \o Node_compile(children[k], indent) \o ";\n"
            \o Block_compile_from(children, k + 1, indent)
Block_compile(children, indent) == Block_compile_from(children, 1, indent + 4)

\* Root.compile
Root_compile(children, indent) ==
    "typedef char* str;\n\nint main() {\n" \o Block_compile(children, indent)
        \o "return 0;\n}\n"

----------------------------------------------------------------------------
(* The front end as a state machine: tokenize(source) run one recognizer call
   at a time, and the grammar rules called on a token cursor *)

\* all sequences over S of length at most n
SeqsUpTo(S, n) == UNION {[1..k -> S] : k \in 0..n}

\* the characters of the texts enumerated in full
CodeChars == {"x", "1", "\"", "'", "\\", " ", "\n", "=", "("}
Codes == SeqsUpTo(CodeChars, MaxChars)

\* the Tokens of the token sequences enumerated in full
TokenAlphabet ==
    {Token(VAR_NAME, "x"), Token(VAR_NAME, "printf"), Token(WHITESPACE, " "),
     Token(OPERATOR, "="), Token(STRING_LITERAL, "a"), Token(UNKNOWN, "("),
     Token(UNKNOWN, ")"), Token(UNKNOWN, ","), Token(NEW_LINE, "\n")}

\* longer texts, tokenized by tokenize
Text_msg_printf ==      \* msg = "hi" / printf(msg)
    <<"m", "s", "g", " ", "=", " ", "\"", "h", "i", "\"", "\n",
      "p", "r", "i", "n", "t", "f", "(", "m", "s", "g", ")">>
Text_two_assignments == \* x = "a" / x = "b"
    <<"x", " ", "=", " ", "\"", "a", "\"", "\n", "x", " ", "=", " ", "\"", "b", "\"">>
Text_assign_printf ==   \* x = printf
    <<"x", " ", "=", " ", "p", "r", "i", "n", "t", "f", "\n">>
Text_string_then_name == \* "a"x
    <<"\"", "a", "\"", "x">>
Text_call_unclosed_string == \* printf("a")  then an unclosed "\
    <<"p", "r", "i", "n", "t", "f", "(", "\"", "a", "\"", ")", "\n", "\"", "\\">>
Text_nested_call ==     \* printf(printf("a"))
    <<"p", "r", "i", "n", "t", "f", "(", "p", "r", "i", "n", "t", "f", "(",
      "\"", "a", "\"", ")", ")">>
Text_call_no_separator == \* printf("a" x)
    <<"p", "r", "i", "n", "t", "f", "(", "\"", "a", "\"", " ", "x", ")">>
\* printf("a", .., "a") with k arguments
RECURSIVE call_arguments(_)
call_arguments(k) ==
    IF k = 0 THEN <<>>
    ELSE IF k = 1 THEN <<"\"", "a", "\"">>
    ELSE call_arguments(k - 1) \o <<",", "\"", "a", "\"">>
Text_call(k) == <<"p", "r", "i", "n", "t", "f", "(">> \o call_arguments(k) \o <<")">>
MaxArgs == 2        \* most arguments of the calls Text_call(k)

Texts ==
    {Text_msg_printf, Text_two_assignments, Text_assign_printf,
     Text_string_then_name, Text_call_unclosed_string,
     Text_nested_call, Text_call_no_separator}
        \cup {Text_call(k) : k \in 0..MaxArgs}

\* the token sequences x = v, v any one Token
Assignments_to_x ==
    {<<Token(VAR_NAME, "x"), Token(OPERATOR, "="), v>> : v \in TokenAlphabet}

\* n lines, line i the string literal Line_texts[i] and then a NEW_LINE
MaxLines == 2       \* most lines of the token sequences Lines(n)
Line_texts == <<"a", "b", "c", "d">>
RECURSIVE Lines(_)
Lines(n) ==
    IF n = 0 THEN <<>>
    ELSE Lines(n - 1) \o <<Token(STRING_LITERAL, Line_texts[n]), Token(NEW_LINE, "\n")>>

TokenStreams ==
    {[toks |-> t, raises |-> FALSE] :
        t \in SeqsUpTo(TokenAlphabet, MaxToks) \cup Assignments_to_x
                \cup {Lines(n) : n \in 1..MaxLines}}
        \cup {tokenize(t) : t \in Texts}

\* the contexts the rules are called with: the built-ins as enclosing
\* bindings, and x undeclared or declared as a string
Contexts ==
    {AstContext(std_globals, l) : l \in {NoVars, [s \in {"x"} |-> Str]}}

TokenizeIdle ==
    /\ source = <<>> /\ cpos = MemIter_index_default /\ tk = 0 /\ out = <<>>
    /\ tpc = "off" /\ tlast = [name |-> "None", st |-> "none"]

ParseIdle ==
    /\ stream = [toks |-> <<>>, raises |-> FALSE] /\ pos = MemIter_index_default
    /\ context = AstContext(NoVars, NoVars) /\ self_children = <<>>
    /\ pc = "off" /\ result = [rule |-> "None", at |-> -1, st |-> "none", node |-> NoNode]

\* tokenize(source) is called: MemIter(iter(code))
InitTokenize ==
    /\ source \in Codes /\ cpos = MemIter_index_default /\ tk = 0 /\ out = <<>>
    /\ tpc = "next_char" /\ tlast = [name |-> "None", st |-> "none"]

\* a MemIter over a token source and a context are at hand
InitParse ==
    /\ stream \in TokenStreams /\ pos = MemIter_index_default
    /\ context \in Contexts /\ self_children = <<>>
    /\ pc = "idle" /\ result = [rule |-> "None", at |-> -1, st |-> "none", node |-> NoNode]

\* tokenize: for char in MemIter(iter(source))
TokenizeChar ==
    /\ tpc = "next_char"
    /\ LET n == Char_next(source, cpos)
       IN /\ cpos' = n.index
          /\ IF n.st = "stop" THEN tpc' = "done" /\ tk' = 0
             ELSE tpc' = "try" /\ tk' = 1
    /\ UNCHANGED <<source, out, tlast>>
    /\ UNCHANGED <<cursorVars, inferVars, parseVars, callVars>>

\* tokenize: token = tokenizer(char), for the next tokenizer of the list
TokenizeTry ==
    /\ tpc = "try"
    /\ \E r \in {register_tokenizer(tokenizers[tk], source, cpos)} :
          /\ tlast' = [name |-> tokenizers[tk], st |-> r.st]
          /\ cpos' = r.idx
          /\ out' = IF r.st = "token" THEN Append(out, r.tok) ELSE out
          /\ IF r.st = "raise" THEN tpc' = "raised" /\ tk' = tk
             ELSE IF r.st = "token" \/ tk = Len(tokenizers)
             THEN tpc' = "next_char" /\ tk' = 0
             ELSE tpc' = "try" /\ tk' = tk + 1
    /\ UNCHANGED source
    /\ UNCHANGED <<cursorVars, inferVars, parseVars, callVars>>

\* the caller steps its token cursor: next(tokens)
Advance ==
    /\ pc = "idle"
    /\ Tok_next(stream, pos).st = "item"
    /\ pos' = Tok_next(stream, pos).index
    /\ result' = [rule |-> "next", at |-> pos, st |-> "ok", node |-> NoNode]
    /\ UNCHANGED <<stream, context, self_children, pc>>
    /\ UNCHANGED <<cursorVars, inferVars, tokenizeVars, callVars>>

\* rule.parse(tokens, context), `answers` the set of its one answer
Called(rule, answers) ==
    /\ \E r \in answers :
          /\ pos' = r.idx
          /\ context' = r.ctx
          /\ result' = [rule |-> rule, at |-> pos, st |-> r.st, node |-> r.node]
          /\ pc' = IF IsRaise(r.st) THEN "raised" ELSE "idle"
    /\ UNCHANGED <<stream, self_children>>
    /\ UNCHANGED <<cursorVars, inferVars, tokenizeVars, callVars>>

CallStatementRule ==
    /\ pc = "idle"
    /\ Called("Statement", {Statement_parse(stream, pos, context)})
CallAssignment ==
    /\ pc = "idle"
    /\ Called("Assignment", {Assignment_parse(stream, pos, context)})
CallAssignee ==
    /\ pc = "idle"
    /\ Called("Assignee", {Assignee_parse(stream, pos, context)})
CallValueStatement ==
    /\ pc = "idle"
    /\ Called("ValueStatement", {ValueStatement_parse(stream, pos, context)})
CallStringLiteral ==
    /\ pc = "idle"
    /\ Called("StringLiteral", {StringLiteral_parse(stream, pos, context)})
CallCallStatement ==
    /\ pc = "idle"
    /\ Called("CallStatement", {CallStatement_parse(stream, pos, context)})

\* parse(source) reaches Root.parse: the built-ins are seeded, Block.parse begins
RootParse ==
    /\ pc = "idle" /\ pos = MemIter_index_default /\ result.rule = "None"
    /\ context' = Root_parse_context(context)
    /\ pc' = "block"
    /\ result' = [rule |-> "Root", at |-> pos, st |-> "running", node |-> NoNode]
    /\ UNCHANGED <<stream, pos, self_children>>
    /\ UNCHANGED <<cursorVars, inferVars, tokenizeVars, callVars>>

\* one turn of Block.parse's loop
BlockStep ==
    /\ pc = "block"
    /\ Len(self_children) < MaxChildren
    /\ \E r \in {Block_parse_step(stream, pos, context, self_children)} :
          /\ pos' = r.idx
          /\ context' = r.ctx
          /\ self_children' = r.children
          /\ pc' = IF r.st = "continue" THEN "block"
                   ELSE IF IsRaise(r.st) /\ r.st # "self" THEN "raised" ELSE "done"
          /\ result' = [result EXCEPT !.st = IF r.st = "continue" THEN "running" ELSE r.st]
    /\ UNCHANGED stream
    /\ UNCHANGED <<cursorVars, inferVars, tokenizeVars, callVars>>

NextParse ==
    \/ TokenizeChar
    \/ TokenizeTry
    \/ Advance
    \/ CallStatementRule
    \/ CallAssignment
    \/ CallAssignee
    \/ CallValueStatement
    \/ CallStringLiteral
    \/ CallCallStatement
    \/ RootParse
    \/ BlockStep


----------------------------------------------------------------------------
(* tokenize(code) called more than once: the generators stepped in any order *)

\* the characters of the texts passed to the calls
CallChars == {"x", "\"", "\\"}
CallCodes == SeqsUpTo(CallChars, MaxCallChars)

\* the generators alive at once
Generators == {1, 2}

\* tokenize: for char in MemIter(iter(code)): the MemIter a call iterates
\* is the one it constructs itself
call_cursor_shared(g) == 1
call_cursor(g) == g

CallsIdle == calls = <<>> /\ chars = <<>>

\* tokenize(code) has been called twice; no generator has run yet
InitCalls ==
    \E c1 \in CallCodes : \E c2 \in CallCodes :
        /\ calls = [g \in Generators |->
                      [code |-> IF g = 1 THEN c1 ELSE c2, tk |-> 0, out |-> <<>>,
                       pc |-> "next_char"]]
        /\ chars = [g \in Generators |->
                      [code |-> IF g = 1 THEN c1 ELSE c2,
                       index |-> MemIter_index_default]]

\* generator g: for char in MemIter(iter(code))
CallChar(g) ==
    /\ calls[g].pc = "next_char"
    /\ \E k \in {call_cursor(g)} :
       \E n \in {Char_next(chars[k].code, chars[k].index)} :
          /\ chars' = [chars EXCEPT ![k].index = n.index]
          /\ calls' = [calls EXCEPT
                         ![g].pc = IF n.st = "stop" THEN "done" ELSE "try",
                         ![g].tk = IF n.st = "stop" THEN 0 ELSE 1]
    /\ UNCHANGED <<cursorVars, inferVars, tokenizeVars, parseVars>>

\* generator g: token = tokenizer(char), for the next tokenizer of the list
CallTry(g) ==
    /\ calls[g].pc = "try"
    /\ \E k \in {call_cursor(g)} :
       \E r \in {register_tokenizer(tokenizers[calls[g].tk], chars[k].code,
                                    chars[k].index)} :
          /\ chars' = [chars EXCEPT ![k].index = r.idx]
          /\ calls' = [calls EXCEPT
                         ![g].out = IF r.st = "token" THEN Append(@, r.tok) ELSE @,
                         ![g].pc = IF r.st = "raise" THEN "raised"
                                   ELSE IF r.st = "token" \/ calls[g].tk = Len(tokenizers)
                                   THEN "next_char" ELSE "try",
                         ![g].tk = IF r.st = "raise" THEN @
                                   ELSE IF r.st = "token" \/ calls[g].tk = Len(tokenizers)
                                   THEN 0 ELSE @ + 1]
    /\ UNCHANGED <<cursorVars, inferVars, tokenizeVars, parseVars>>

NextCalls ==
    \/ \E g \in Generators : CallChar(g)
    \/ \E g \in Generators : CallTry(g)
----------------------------------------------------------------------------
(* Specifications: each runs one part of the program, the rest stands still *)

InitSpecCursor == InferIdle /\ TokenizeIdle /\ ParseIdle /\ CallsIdle /\ InitCursor
SpecCursor == InitSpecCursor /\ [][NextCursor]_vars

InitSpecInfer == CursorIdle /\ TokenizeIdle /\ ParseIdle /\ CallsIdle /\ InitInfer
SpecInfer == InitSpecInfer /\ [][NextInfer]_vars

\* either tokenize(source) is run, or rules are called on a token cursor
InitSpecParse ==
    /\ CursorIdle /\ InferIdle /\ CallsIdle
    /\ \/ InitTokenize /\ ParseIdle
       \/ TokenizeIdle /\ InitParse
SpecParse == InitSpecParse /\ [][NextParse]_vars


\* two tokenize generators are stepped in any order
InitSpecCalls == CursorIdle /\ InferIdle /\ TokenizeIdle /\ ParseIdle /\ InitCalls
SpecCalls == InitSpecCalls /\ [][NextCalls]_vars
----------------------------------------------------------------------------
(* Claims about MemIter *)

IsPrefix(s, t) == Len(s) <= Len(t) /\ SubSeq(t, 1, Len(s)) = s

\* C1: a step that is neither a call on cursor c itself nor update_parent() of
\* one of c's direct forks leaves c's index as it was, and every step leaves
\* the items already in c's list in place (the list may only grow at its end).
C1_ForkIsolation ==
    [][\A c \in Cursors :
         /\ (last'.cur # c /\ ~(last'.op = "update_parent" /\ parent[last'.cur] = c))
               => index'[c] = index[c]
         /\ IsPrefix(lists[elements[c]], lists'[elements'[c]])]_vars

\* a fork has run at least two items past its parent, pulling from the source
C1_Witness ==
    \E f \in Cursors :
        /\ parent[f] # None
        /\ last.op = "next" /\ last.cur = f /\ last.ok
        /\ index[f] >= index[parent[f]] + 2
        /\ Len(lists[elements[parent[f]]]) = index[f] + 1

\* C2: update_parent() on a fork writes the fork's index into its direct
\* parent's index and changes nothing else; without a parent nothing changes.
C2_CommitFrame ==
    [][last'.op = "update_parent" =>
         LET f == last'.cur
         IN /\ \A c \in Cursors :
                 index'[c] = IF c = parent[f] THEN index[f] ELSE index[c]
            /\ Len(index') = Len(index)
            /\ UNCHANGED <<iterator, lists, elements, parent>>]_vars

\* a fork of a fork has committed a position its parent did not have, while
\* the origin stayed elsewhere
C2_Witness ==
    \E f \in Cursors :
        /\ last.op = "update_parent" /\ last.cur = f
        /\ parent[f] # None /\ parent[parent[f]] # None
        /\ index[parent[f]] = index[f]
        /\ index[parent[parent[f]]] # index[f]

\* C3: all cursors refer to the origin's list, that list is the prefix of the
\* source pulled so far (each item pulled once, in order), and no step
\* removes or replaces a buffered item.
C3_SharedAppendOnly ==
    /\ [](/\ \A c \in Cursors : elements[c] = elements[1]
          /\ lists[elements[1]] = SubSeq(iterator.items, 1, iterator.pos))
    /\ [][IsPrefix(lists[elements[1]], lists'[elements'[1]])]_vars

\* two forks at different positions, the whole source buffered, after a commit
C3_Witness ==
    /\ Len(index) = 3
    /\ index[2] # index[3]
    /\ iterator.pos = Len(iterator.items) /\ iterator.pos >= 2
    /\ last.op = "update_parent"


\* C11: go_back_by(n) never moves a cursor forward, and go_back_by(1) on a
\* started cursor at index p (p = 0 included) leaves it where the next
\* __next__ arrives at index p again, the item it returned last.
C11_RewindUnconsumes ==
    [][last'.op = "go_back_by" =>
         LET c == last'.cur
         IN /\ index'[c] <= index[c]
            /\ (last'.arg = 1 /\ index[c] >= 0)
                  => next_index(index', parent, c)[c] = index[c]]_vars

\* C12: split(offset) makes one new cursor at index
\* max(-1, parent index - 1 + offset) that refers to the parent's list, reads
\* the same iterator and has the parent as its parent, and changes no other
\* cursor; so when the parent has started, the fork's first __next__ arrives
\* at the parent's index for offset 0 and at the index after it for offset 1.
C12_ForkPosition ==
    [][last'.op = "split" =>
         LET c == last'.cur
             f == Len(index')
         IN /\ f = Len(index) + 1
            /\ index'[f] = Max(MemIter_index_default, index[c] - 1 + last'.arg)
            /\ elements'[f] = elements[c]
            /\ parent'[f] = c
            /\ \A d \in Cursors :
                  index'[d] = index[d] /\ elements'[d] = elements[d]
                      /\ parent'[d] = parent[d]
            /\ UNCHANGED <<iterator, lists>>
            /\ index[c] >= 0
                  => next_index(index', parent', f)[f] = index[c] + last'.arg]_vars

\* a cursor that has stepped past its first item has just been forked with
\* offset 1: the fork stands at the parent's index and refers to its list
C12_Witness ==
    /\ last.op = "split" /\ last.arg = 1
    /\ index[last.cur] >= 1
    /\ index[Len(index)] = index[last.cur]
    /\ parent[Len(index)] = last.cur
    /\ elements[Len(index)] = elements[last.cur]
\* C23: a __next__ that fails because the iterator is depleted leaves the
\* cursor's index as it was, so that a cursor that had started still has a
\* buffered item as its value and hands its parent the index of a buffered
\* item on update_parent().
C23_FailedNextKeepsIndex ==
    [][(last'.op = "next" /\ ~last'.ok)
          => LET c == last'.cur
             IN /\ index'[c] = index[c]
                /\ index[c] >= 0
                      => /\ index'[c] < Len(lists'[elements'[c]])
                         /\ update_parent(index', parent', c)[IF parent'[c] = None THEN c ELSE parent'[c]]
                               < Len(lists'[elements'[c]])]_vars

----------------------------------------------------------------------------
(* Claims about the types *)

\* C6: comparing an Infer with a concrete DataType T succeeds and final_type()
\* then returns T; final_type() of an Infer that was never compared gives the
\* TypeError instead of a type.
C6_InferUnifies ==
    /\ (inferLast.op = "eq" /\ inferLast.arg \in ConcreteTypes)
          => /\ inferLast.res = "True"
             /\ Infer_final_type(infered_type[inferLast.u]) = inferLast.arg
    /\ (inferLast.op = "final_type" /\ inferLast.u \notin compared)
          => inferLast.res = "TypeError"

\* a fresh Infer has just been compared with Str while another, never
\* compared, is still unbound
C6_Witness ==
    /\ inferLast.op = "eq" /\ inferLast.arg = Str /\ inferLast.u = 1
    /\ infered_type[1] = Str
    /\ 2 \notin compared /\ Infer_final_type(infered_type[2]) = "TypeError"


\* C22: once a comparison has bound an Infer to a concrete type T1, no step
\* changes that binding, and a comparison of it with a concrete type other
\* than T1 answers False, so that final_type() still returns T1.
C22_UnifyOnce ==
    [][\A u \in InferIds :
          infered_type[u] \in ConcreteTypes
            => /\ infered_type'[u] = infered_type[u]
               /\ Infer_final_type(infered_type'[u]) = infered_type[u]
               /\ (/\ inferLast'.op = "eq" /\ inferLast'.u = u
                   /\ inferLast'.arg \in ConcreteTypes \ {infered_type[u]})
                     => inferLast'.res = "False"]_vars
----------------------------------------------------------------------------
(* Claims about parse(source) *)

\* the six grammar rules a caller tries on a token cursor
GrammarRules ==
    {"Statement", "Assignment", "Assignee", "ValueStatement", "StringLiteral",
     "CallStatement"}

\* C4: every turn of Block.parse's loop that goes on to another turn leaves
\* the token cursor strictly further along than it found it, and so never
\* appends again the statement it appended the turn before.
C4_BlockLoopAdvances ==
    [][(pc = "block" /\ pc' = "block") =>
         /\ pos' > pos
         /\ (self_children # <<>> /\ self_children' # self_children)
               => self_children'[Len(self_children')] # self_children[Len(self_children)]]_vars

\* the emitted program of the two-line example
C5_Expected ==
    "typedef char* str;\n\nint main() {\n"
        \o "    char[] msg = \"hi\";\n" \o "    printf(msg);\n"
        \o "return 0;\n}\n"

\* C5: parse of the two lines msg = "hi" / printf(msg) ends with a Root of
\* two children, an Assignment then a CallStatement, and compiling it emits
\* the preamble, the two statements and the postamble.
C5_EndToEnd ==
    (/\ stream = tokenize(Text_msg_printf)
     /\ result.rule = "Root" /\ pc \in {"done", "raised"})
        => /\ result.st = "self"
           /\ Len(self_children) = 2
           /\ self_children[1].kind = "Assignment"
           /\ self_children[2].kind = "CallStatement"
           /\ Root_compile(self_children, 0) = C5_Expected

\* C7: on the tokens of x = "a" / x = "b", Assignment.parse on the fresh
\* cursor answers an Assignment that declares x and binds it to Str in
\* local_vars; called again after that answer it answers an Assignment that
\* does not declare x and leaves local_vars as it was.
C7_DeclareThenReassign ==
    [][(/\ stream = tokenize(Text_two_assignments)
        /\ pc = "idle" /\ result'.rule = "Assignment"
        /\ "x" \notin DOMAIN context.nonlocal_vars)
          => /\ (pos = MemIter_index_default /\ "x" \notin DOMAIN context.local_vars)
                  => /\ result'.st = "ok"
                     /\ result'.node.children[1].is_declaration
                     /\ context'.local_vars =
                            [s \in DOMAIN context.local_vars \cup {"x"} |->
                                IF s = "x" THEN Str ELSE context.local_vars[s]]
             /\ (result.rule = "Assignment" /\ result.st = "ok"
                    /\ "x" \in DOMAIN context.local_vars)
                  => /\ result'.st = "ok"
                     /\ ~result'.node.children[1].is_declaration
                     /\ context'.local_vars = context.local_vars]_vars

\* C8: CallStatement.parse on printf(..) with a number of arguments other
\* than the one parameter of printf answers None: no node, no exception.
C8_ArityMismatchIsNone ==
    (/\ \E k \in 0..MaxArgs : k # Len(Function_args(Function))
                                /\ stream = tokenize(Text_call(k))
     /\ result.rule = "CallStatement" /\ result.at = MemIter_index_default)
        => result.st = "none"

NonStringAssignments ==
    {tokenize(Text_assign_printf)}
        \cup {[toks |-> t, raises |-> FALSE] :
                t \in {a \in Assignments_to_x : a[3].type # STRING_LITERAL}}

\* C10: with x bound to Str in local_vars, Assignment.parse on an assignment
\* to x of a value that is no string answers None and leaves local_vars as
\* it was.
C10_TypeMismatchRejected ==
    [][(/\ pc = "idle" /\ result'.rule = "Assignment"
        /\ pos = MemIter_index_default
        /\ stream \in NonStringAssignments
        /\ "x" \in DOMAIN context.local_vars /\ context.local_vars["x"] = Str)
          => /\ result'.st = "none"
             /\ context'.local_vars = context.local_vars
             /\ context'.local_vars["x"] = Str]_vars

\* Assignment.parse has answered None on x = printf with x bound to Str
C10_Witness ==
    /\ stream = tokenize(Text_assign_printf)
    /\ result.rule = "Assignment" /\ result.st = "none"
    /\ result.at = MemIter_index_default
    /\ "x" \in DOMAIN context.local_vars /\ context.local_vars["x"] = Str

\* the token sequences x, whitespace*, =, whitespace*, "a"
Assignments_of_string ==
    {<<Token(VAR_NAME, "x")>> \o w1 \o <<Token(OPERATOR, "=")>> \o w2
        \o <<Token(STRING_LITERAL, "a")>> :
        w1 \in {<<>>, <<Token(WHITESPACE, " ")>>},
        w2 \in {<<>>, <<Token(WHITESPACE, " ")>>}}

\* C14: on x, whitespace*, =, whitespace*, "a" with x undeclared or declared
\* as a string, Assignment.parse called at the start of the tokens answers an
\* Assignment whose children are the Assignee and the StringLiteral, and
\* commits the caller's cursor to the string token.
C14_AssignmentAccepted ==
    [][(/\ pc = "idle" /\ result'.rule = "Assignment"
        /\ pos = MemIter_index_default
        /\ "x" \in DOMAIN context.local_vars => context.local_vars["x"] = Str)
          => \A a \in Assignments_of_string :
                IsPrefix(a, stream.toks)
                  => /\ result'.st = "ok"
                     /\ result'.node.kind = "Assignment"
                     /\ Len(result'.node.children) = 2
                     /\ result'.node.children[1].kind = "Assignee"
                     /\ result'.node.children[2].kind = "StringLiteral"
                     /\ pos' = Len(a) - 1]_vars

\* C15: on n lines, each a statement at the block's indentation and a line
\* end, the turn of Block.parse's loop that starts at the beginning of line i
\* appends the statement of line i, and no other, and leaves the cursor at
\* or past that statement; when Block.parse has ended it has returned the
\* Block, with the n statements as children in the order of the lines.
C15_BlockLineByLine ==
    (pc \in {"block", "done", "raised"} /\ \E n \in 1..MaxLines : stream.toks = Lines(n))
      => LET n == Len(stream.toks) \div 2
             statement(i) == [kind |-> "StringLiteral", data_type |-> Str,
                              token |-> stream.toks[2 * i - 1]]
         IN /\ pc = "block" =>
                  \A i \in 1..n :
                     pos = 2 * i - 3     \* on the line end before line i, or not started
                       => \E turn \in {Block_parse_step(stream, pos, context, self_children)} :
                             /\ turn.children = Append(self_children, statement(i))
                             /\ turn.idx >= 2 * i - 2
            /\ pc # "block"
                  => /\ pc = "done" /\ result.st = "self"
                     /\ self_children = [i \in 1..n |-> statement(i)]

\* C19: when CallStatement.parse answers a call, the data type of each
\* argument it accepted is the declared data type of the parameter at the
\* same place; so printf(printf("a")), whose argument is no string, is not
\* answered with a call.
C19_ArgumentTypeChecked ==
    (result.rule = "CallStatement" /\ result.st = "ok")
        => \A k \in 1..Len(result.node.args) :
              result.node.args[k] # NoNode
                => result.node.args[k].data_type
                      = Function_args(lookup(context, result.node.function))[k].data_type

\* the index of the first token after index j that is no whitespace; the
\* index past the last token when there is none
RECURSIVE next_non_whitespace(_, _)
next_non_whitespace(tokens, j) ==
    IF j + 1 >= Len(tokens.toks) THEN Len(tokens.toks)
    ELSE IF Tok(tokens, j + 1).type = WHITESPACE THEN next_non_whitespace(tokens, j + 1)
    ELSE j + 1

\* C20: on printf, (, a string literal and then, after optional whitespace,
\* a token that is neither "," nor ")", CallStatement.parse answers None.
C20_SeparatorRequired ==
    (/\ result.rule = "CallStatement" /\ result.at = MemIter_index_default
     /\ Len(stream.toks) >= 3
     /\ Tok(stream, 0) = Token(VAR_NAME, "printf")
     /\ Tok(stream, 1) = Token(UNKNOWN, "(")
     /\ Tok(stream, 2).type = STRING_LITERAL
     /\ \E j \in {next_non_whitespace(stream, 2)} :
           j < Len(stream.toks) /\ Tok(stream, j).value \notin {",", ")"})
        => result.st = "none"

\* C21: when the turn of Block.parse's loop begins a line (the first line or
\* the one after a line end) that is not blank and whose count of leading
\* whitespace tokens differs from context.whitespace, Block.parse ends by
\* returning the Block with the children it has collected, not None.
C21_IndentMismatchReturnsBlock ==
    [][(/\ pc = "block" /\ ~stream.raises
        /\ (pos = MemIter_index_default
              \/ (pos >= 0 /\ pos < Len(stream.toks) /\ Tok(stream, pos).type = NEW_LINE))
        /\ \E j \in {next_non_whitespace(stream, pos)} :
              /\ j < Len(stream.toks)
              /\ Tok(stream, j).type # NEW_LINE
              /\ j - (pos + 1) # context.whitespace)
          => /\ pc' = "done"
             /\ result'.st = "self"
             /\ self_children' = self_children]_vars

----------------------------------------------------------------------------
(* Claims about tokenize(code) *)

\* what tokenize yields for each text when it is the only generator run
tokenize_alone == {[code |-> c, yields |-> tokenize(c)] : c \in CallCodes}

\* C13: however the steps of two tokenize generators are ordered, each
\* yields the Tokens that tokenize yields for its text run alone, so two
\* generators over the same text yield the same Tokens.
C13_TokenizeDeterministic ==
    /\ \A g \in DOMAIN calls : \E run \in tokenize_alone :
          /\ run.code = calls[g].code
          /\ IsPrefix(calls[g].out, run.yields.toks)
          /\ calls[g].pc = "done"
                => calls[g].out = run.yields.toks /\ ~run.yields.raises
          /\ calls[g].pc = "raised"
                => calls[g].out = run.yields.toks /\ run.yields.raises
    /\ \A g \in DOMAIN calls : \A h \in DOMAIN calls :
          (calls[g].code = calls[h].code
              /\ calls[g].pc \in {"done", "raised"} /\ calls[h].pc \in {"done", "raised"})
            => calls[g].out = calls[h].out /\ calls[g].pc = calls[h].pc

\* two generators over the same text of two characters have both ended,
\* having yielded the same non-empty Tokens
C13_Witness ==
    /\ calls # <<>>
    /\ calls[1].code = calls[2].code /\ Len(calls[1].code) = 2
    /\ calls[1].pc = "done" /\ calls[2].pc = "done"
    /\ calls[1].out = calls[2].out /\ calls[1].out # <<>>
\* C16: when tokenize has run through a text that holds no quote and no
\* backslash, it has yielded one NEW_LINE token for each "\n" of the text,
\* and no token of another kind whose text is "\n".
C16_NewLineTokens ==
    (/\ tpc = "done"
     /\ \A i \in 1..Len(source) : source[i] \notin string_quotes \cup {"\\"})
        => /\ Cardinality({i \in 1..Len(out) : out[i].type = NEW_LINE})
                = Cardinality({i \in 1..Len(source) : source[i] = "\n"})
           /\ \A i \in 1..Len(out) : out[i].value = "\n" => out[i].type = NEW_LINE

\* the index of the first occurrence of quote q at or after index j that is
\* not taken by a backslash before it; -1 when there is none
RECURSIVE closing_quote(_, _, _)
closing_quote(code, j, q) ==
    IF j >= Len(code) THEN -1
    ELSE IF Char(code, j) = "\\" THEN closing_quote(code, j + 2, q)
    ELSE IF Char(code, j) = q THEN j
    ELSE closing_quote(code, j + 1, q)

\* the characters of code at the indices i..j, as one string
RECURSIVE text_between(_, _, _)
text_between(code, i, j) ==
    IF i > j THEN "" ELSE Char(code, i) \o text_between(code, i + 1, j)

\* C17: when tokenize_string_literal is called on a quote character q and
\* yields a token, the text holds a later q that no backslash takes, the
\* cursor is committed on the first such q, and the token is a
\* STRING_LITERAL whose text is the characters between the two quotes, a
\* backslash and the character after it included; when the text holds such
\* a q, the recognizer yields that token.
C17_StringLiteralClosedBySameQuote ==
    [][(/\ tpc = "try" /\ tlast'.name = "string_literal"
        /\ Char(source, cpos) \in string_quotes)
          => \E close \in {closing_quote(source, cpos + 1, Char(source, cpos))} :
                /\ tlast'.st = "token" <=> close # -1
                /\ tlast'.st = "token"
                      => /\ cpos' = close
                         /\ out' = Append(out, Token(STRING_LITERAL,
                                              text_between(source, cpos + 1, close - 1)))]_vars

\* the index of the last character of the run of name characters that
\* begins at index j
RECURSIVE run_end(_, _)
run_end(code, j) ==
    IF j + 1 < Len(code) /\ IsNameChar(Char(code, j + 1)) THEN run_end(code, j + 1)
    ELSE j

\* C18: when tokenize_var_name is called on a character that can begin a
\* name, it yields one VAR_NAME token whose text is the whole run of name
\* characters from there on, also when the run ends the text, and commits
\* the cursor on the last character of the run.
C18_IdentifierWholeRun ==
    [][(/\ tpc = "try" /\ tlast'.name = "var_name"
        /\ IsNameStart(Char(source, cpos)))
          => \E end \in {run_end(source, cpos)} :
                /\ tlast'.st = "token"
                /\ out' = Append(out, Token(VAR_NAME, text_between(source, cpos, end)))
                /\ cpos' = end]_vars

\* C24: tokenize never ends by raising: whatever the text, also one that
\* ends inside a string literal or right after a backslash inside one, no
\* recognizer call raises, and tokenize runs to the end of the text.
C24_TokenizeNeverRaises ==
    /\ tpc # "raised"
    /\ tlast.st # "raise"
    /\ tpc = "done" => cpos = Len(source)

====
